---- MODULE Spec2Model ----
(***************************************************************************)
(* Employee service of yereke99/employer: the employees table (PostgreSQL), *)
(* the repository (one SQL statement per method), the service (field and    *)
(* query validation) and the requests in flight between them.               *)
(*                                                                          *)
(* A string is a sequence of one-character strings, so that length,         *)
(* trimming and the column widths of the table are computed, not assumed.   *)
(***************************************************************************)
EXTENDS Integers, Sequences, FiniteSets, TLC

----------------------------------------------------------------------------
\* Bounds of the model

\* number of requests that can be in flight at once (independent workers)
NumClients == 2
\* cap on the value of the id sequence of the table
MaxSeq == 3

Clients == 1..NumClients

----------------------------------------------------------------------------
\* Strings

Rep(ch, n) == [i \in 1..n |-> ch]

\* strings.TrimSpace: cut the leading and trailing white space
IsSpace(ch) == ch \in {" ", "\t", "\n", "\r"}
TrimSpaceMutant(s) == s
RECURSIVE TrimStart(_, _)
TrimStart(s, i) == IF i <= Len(s) /\ IsSpace(s[i]) THEN TrimStart(s, i + 1) ELSE i
RECURSIVE TrimEnd(_, _)
TrimEnd(s, j) == IF j >= 1 /\ IsSpace(s[j]) THEN TrimEnd(s, j - 1) ELSE j
TrimSpace(s) == SubSeq(s, TrimStart(s, 1), TrimEnd(s, Len(s)))

\* column widths of the employees table
\* strings.Contains: s holds q as a run of consecutive elements
Contains(s, q) ==
    \E i \in 0..(Len(s) - Len(q)) : SubSeq(s, i + 1, i + Len(q)) = q

NameLen == 255
PhoneLen == 50
CityLen == 100

EmptyStr == << >>
Ann == <<"A", "n", "n">>
Bob == <<"B", "o", "b">>
Almaty == <<"A", "l", "m", "a", "t", "y">>
Oslo == <<"O", "s", "l", "o">>
Phone1 == <<"7", "7", "1">>
Phone2 == <<"7", "7", "2">>
Phone3 == <<"7", "7", "3">>
\* a phone one character wider than its column, the excess being a space
PaddedPhone == Rep("7", PhoneLen) \o <<" ">>
\* a phone one character wider than its column
WidePhone == Rep("7", PhoneLen + 1)

----------------------------------------------------------------------------
\* domain.Employee and the errors of the repository and the service

Emp(i, n, p, c) == [id |-> i, name |-> n, phone |-> p, city |-> c]
\* the zero value of domain.Employee (also stands for a nil *Employee)
NoEmp == Emp(0, EmptyStr, EmptyStr, EmptyStr)

\* a nil Data of NotFoundError, as fmt prints it
NoData == <<"<nil>">>

NilErr ==
    [kind |-> "nil", field |-> "", entity |-> "", id |-> 0, data |-> NoData,
     op |-> "", cause |-> ""]

ValidationError(f) ==
    [kind |-> "ValidationError", field |-> f, entity |-> "", id |-> 0, data |-> NoData,
     op |-> "", cause |-> ""]

NotFoundError(ent, i) ==
    [kind |-> "NotFoundError", field |-> "", entity |-> ent, id |-> i, data |-> NoData,
     op |-> "", cause |-> ""]

\* NotFoundError{Entity: ent, Data: d}
NotFoundData(ent, d) ==
    [kind |-> "NotFoundError", field |-> "", entity |-> ent, id |-> 0, data |-> d,
     op |-> "", cause |-> ""]

\* fmt.Errorf("<op>: %w", err): the driver's error wrapped with the operation
Wrapped(o, c) ==
    [kind |-> "wrapped", field |-> "", entity |-> "", id |-> 0, data |-> NoData,
     op |-> o, cause |-> c]

\* SQLSTATE of the store's own rejections
UniqueViolation == "23505"
StringTooLong == "22001"
\* faults of the connection: the statement never ran, or ran and its reply was lost
ConnFailed == "conn_failed"
ReplyLost == "reply_lost"
NoFault == "none"
Faults == {NoFault, ConnFailed, ReplyLost}
\* Scan of a NULL column into a Go string
ScanNull == "scan_null"
\* an error of the driver, of a proxy or of the store whose text holds the
\* words "not found"
TextNotFound == "text_not_found"

----------------------------------------------------------------------------
\* Request interface: the status and the message EmployeeHandler writes for
\* the outcome of the service call. Messages are sequences of words, the
\* Cyrillic ones written in Latin letters.

\* the Error() of the errors
CauseText(cause) ==
    IF cause = UniqueViolation
    THEN <<"pq", ":", "duplicate", "key", "value", "violates", "unique", "constraint">>
    ELSE IF cause = StringTooLong
    THEN <<"pq", ":", "value", "too", "long", "for", "type", "character", "varying">>
    ELSE IF cause = ConnFailed THEN <<"dial", "tcp", ":", "connection", "refused">>
    ELSE IF cause = TextNotFound THEN <<"pq", ":", "backend", "not", "found">>
    ELSE IF cause = ScanNull
    THEN <<"sql", ":", "Scan", "error", ":", "converting", "NULL", "to", "string",
           "is", "unsupported">>
    ELSE <<"driver", ":", "bad", "connection">>
ErrorText(err) ==
    IF err.kind = "ValidationError"
    THEN IF err.field = "name" THEN <<"imya", "obyazatelno">>
         ELSE IF err.field = "phone" THEN <<"telefon", "obyazatelen">>
         ELSE IF err.field = "city" THEN <<"gorod", "obyazatelen">>
         ELSE <<"nekorrektnyi", "zapros">>
    ELSE IF err.kind = "NotFoundError"
    THEN IF err.id # 0 THEN <<err.entity, "s", "ID", ToString(err.id), "ne", "naiden">>
         ELSE <<err.entity, "ne", "naiden", ":">> \o err.data
    ELSE IF err.kind = "wrapped" THEN <<err.op, ":">> \o CauseText(err.cause)
    ELSE << >>

\* strings.ToLower, word by word
ToLower(text) == [i \in 1..Len(text) |-> IF text[i] = "ID" THEN "id" ELSE text[i]]

\* EmployeeHandler.isNotFoundError
isNotFoundErrorMutant(err) ==
    \/ Contains(ToLower(ErrorText(err)), <<"not", "found">>)
    \/ Contains(ToLower(ErrorText(err)), <<"notfound">>)
isNotFoundError(err) ==
    \/ Contains(ToLower(ErrorText(err)), <<"ne", "naiden">>)
    \/ Contains(ToLower(ErrorText(err)), <<"not", "found">>)
    \/ Contains(ToLower(ErrorText(err)), <<"notfound">>)

StatusOK == 200
StatusCreated == 201
StatusNoContent == 204
StatusBadRequest == 400
StatusNotFound == 404
StatusInternalServerError == 500

InternalError == <<"vnutrennyaya", "oshibka", "servera">>
EmployeeNotFound == <<"sotrudnik", "ne", "naiden">>

\* what each endpoint writes for the error of its service call: status, message
CreateStatus(err) ==
    IF err = NilErr THEN <<StatusCreated, << >> >>
    ELSE IF err.kind = "ValidationError" THEN <<StatusBadRequest, ErrorText(err)>>
    ELSE <<StatusInternalServerError, InternalError>>
GetStatus(err) ==
    IF err = NilErr THEN <<StatusOK, << >> >>
    ELSE IF isNotFoundError(err) THEN <<StatusNotFound, EmployeeNotFound>>
    ELSE <<StatusInternalServerError, InternalError>>
GetAllStatus(err) ==
    IF err = NilErr THEN <<StatusOK, << >> >>
    ELSE <<StatusInternalServerError, InternalError>>
UpdateStatus(err) ==
    IF err = NilErr THEN <<StatusOK, << >> >>
    ELSE IF err.kind = "ValidationError" THEN <<StatusBadRequest, ErrorText(err)>>
    ELSE IF isNotFoundError(err) THEN <<StatusNotFound, EmployeeNotFound>>
    ELSE <<StatusInternalServerError, InternalError>>
DeleteStatus(err) ==
    IF err = NilErr THEN <<StatusNoContent, << >> >>
    ELSE IF isNotFoundError(err) THEN <<StatusNotFound, EmployeeNotFound>>
    ELSE <<StatusInternalServerError, InternalError>>
\* the search endpoint
SearchStatus(err) ==
    IF err = NilErr THEN <<StatusOK, << >> >>
    ELSE IF err.kind = "ValidationError" THEN <<StatusBadRequest, ErrorText(err)>>
    ELSE <<StatusInternalServerError, InternalError>>
MissingQuery == <<"parametr", "q", "obyazatelen">>

\* domain.EmployeeResponse built from an employee
EmployeeResponseMutant(e) == Emp(0, e.name, e.phone, e.city)
EmployeeResponse(e) == Emp(e.id, e.name, e.phone, e.city)

\* the body of a response: one employee, a list of employees, or nothing
Body(e, list, written) == [emp |-> e, list |-> list, written |-> written]
NoBody == Body(NoEmp, << >>, FALSE)

\* the body each endpoint writes when its service call succeeded: employee
\* is the object the handler passed to the service, val and list are what
\* the service returned
HandlerBody(op, employee, val, list) ==
    IF op \in {"create", "update"} THEN Body(EmployeeResponse(employee), << >>, TRUE)
    ELSE IF op = "get" THEN Body(EmployeeResponse(val), << >>, TRUE)
    ELSE IF op = "delete" THEN NoBody
    ELSE Body(NoEmp, [i \in 1..Len(list) |-> EmployeeResponse(list[i])], TRUE)

HandlerStatus(op, err) ==
    IF op = "create" THEN CreateStatus(err)
    ELSE IF op = "get" THEN GetStatus(err)
    ELSE IF op = "getall" THEN GetAllStatus(err)
    ELSE IF op = "update" THEN UpdateStatus(err)
    ELSE IF op = "delete" THEN DeleteStatus(err)
    ELSE SearchStatus(err)

----------------------------------------------------------------------------
\* The employees table

Ids(tbl) == {r.id : r \in tbl}
RowMutant(tbl, i) == CHOOSE r \in tbl : TRUE
Row(tbl, i) == CHOOSE r \in tbl : r.id = i

\* assignment of a value to a VARCHAR(n) column: an over-long value is an
\* error unless all excess characters are spaces, which are cut off
Fits(s, n) == \A i \in (n + 1)..Len(s) : s[i] = " "
Coerce(s, n) == IF Len(s) <= n THEN s ELSE SubSeq(s, 1, n)

FitsColumns(e) ==
    /\ Fits(e.name, NameLen)
    /\ Fits(e.phone, PhoneLen)
    /\ Fits(e.city, CityLen)

Stored(i, e) ==
    Emp(i, Coerce(e.name, NameLen), Coerce(e.phone, PhoneLen), Coerce(e.city, CityLen))

\* phone VARCHAR(50) NOT NULL UNIQUE
PhoneTakenMutant(tbl, p, except) == FALSE
PhoneTaken(tbl, p, except) ==
    \E r \in tbl : r.id # except /\ r.phone = p

\* INSERT INTO employees (name, phone, city) VALUES ($1, $2, $3) RETURNING id
\* the sequence advances even when the row is rejected by the unique index
InsertStmtMutant(tbl, sq, e) ==
    IF ~FitsColumns(e)
    THEN [sqlstate |-> StringTooLong, tbl |-> tbl, seq |-> sq + 1, id |-> 0]
    ELSE IF PhoneTaken(tbl, Coerce(e.phone, PhoneLen), 0)
    THEN [sqlstate |-> UniqueViolation, tbl |-> tbl, seq |-> sq + 1, id |-> 0]
    ELSE [sqlstate |-> "", tbl |-> tbl \cup {Stored(Cardinality(tbl) + 1, e)},
          seq |-> sq + 1, id |-> Cardinality(tbl) + 1]
\* an INSERT whose row is kept although the unique index rejects it
InsertStmtKeepsRejected(tbl, sq, e) ==
    IF ~FitsColumns(e)
    THEN [sqlstate |-> StringTooLong, tbl |-> tbl, seq |-> sq + 1, id |-> 0]
    ELSE IF PhoneTaken(tbl, Coerce(e.phone, PhoneLen), 0)
    THEN [sqlstate |-> UniqueViolation, tbl |-> tbl \cup {Stored(sq + 1, e)},
          seq |-> sq + 1, id |-> 0]
    ELSE [sqlstate |-> "", tbl |-> tbl \cup {Stored(sq + 1, e)}, seq |-> sq + 1,
          id |-> sq + 1]
InsertStmt(tbl, sq, e) ==
    IF ~FitsColumns(e)
    THEN [sqlstate |-> StringTooLong, tbl |-> tbl, seq |-> sq + 1, id |-> 0]
    ELSE IF PhoneTaken(tbl, Coerce(e.phone, PhoneLen), 0)
    THEN [sqlstate |-> UniqueViolation, tbl |-> tbl, seq |-> sq + 1, id |-> 0]
    ELSE [sqlstate |-> "", tbl |-> tbl \cup {Stored(sq + 1, e)}, seq |-> sq + 1,
          id |-> sq + 1]

\* UPDATE employees SET name = $2, phone = $3, city = $4 WHERE id = $1
\* the possible outcomes: when no row has the id, an over-long value is
\* rejected or never assigned, depending on when the store evaluates it
UpdateStmtMutant(tbl, e) ==
    IF ~FitsColumns(e)
    THEN {[sqlstate |-> StringTooLong, tbl |-> tbl, rows |-> 0]}
    ELSE IF PhoneTaken(tbl, Coerce(e.phone, PhoneLen), e.id)
    THEN {[sqlstate |-> UniqueViolation, tbl |-> tbl, rows |-> 0]}
    ELSE {[sqlstate |-> "", tbl |-> {r \in tbl : r.id # e.id} \cup {Stored(e.id, e)},
           rows |-> 1]}
UpdateStmt(tbl, e) ==
    IF e.id \notin Ids(tbl)
    THEN {[sqlstate |-> "", tbl |-> tbl, rows |-> 0]}
         \cup (IF FitsColumns(e) THEN {}
               ELSE {[sqlstate |-> StringTooLong, tbl |-> tbl, rows |-> 0]})
    ELSE IF ~FitsColumns(e)
    THEN {[sqlstate |-> StringTooLong, tbl |-> tbl, rows |-> 0]}
    ELSE IF PhoneTaken(tbl, Coerce(e.phone, PhoneLen), e.id)
    THEN {[sqlstate |-> UniqueViolation, tbl |-> tbl, rows |-> 0]}
    ELSE {[sqlstate |-> "", tbl |-> (tbl \ {Row(tbl, e.id)}) \cup {Stored(e.id, e)},
           rows |-> 1]}

\* DELETE FROM employees WHERE id = $1
DeleteStmtMutant(tbl, i) == [tbl |-> {r \in tbl : r.id # i}, rows |-> 1]
DeleteStmt(tbl, i) ==
    IF i \in Ids(tbl)
    THEN [tbl |-> tbl \ {Row(tbl, i)}, rows |-> 1]
    ELSE [tbl |-> tbl, rows |-> 0]

\* SELECT id, name, phone, city FROM employees ORDER BY id
RECURSIVE OrderByIdMutant(_)
OrderByIdMutant(tbl) ==
    IF tbl = {} THEN << >>
    ELSE LET r == CHOOSE x \in tbl : \A y \in tbl : x.id >= y.id
         IN  <<r>> \o OrderByIdMutant(tbl \ {r})
RECURSIVE OrderById(_)
OrderById(tbl) ==
    IF tbl = {} THEN << >>
    ELSE LET r == CHOOSE x \in tbl : \A y \in tbl : x.id <= y.id
         IN  <<r>> \o OrderById(tbl \ {r})

----------------------------------------------------------------------------
\* The search statement of employeeRepository.SearchEmployees

UpperCase == <<"A", "B", "C", "D", "E", "F", "G", "H", "I", "J", "K", "L", "M",
               "N", "O", "P", "Q", "R", "S", "T", "U", "V", "W", "X", "Y", "Z">>
LowerCase == <<"a", "b", "c", "d", "e", "f", "g", "h", "i", "j", "k", "l", "m",
               "n", "o", "p", "q", "r", "s", "t", "u", "v", "w", "x", "y", "z">>

\* LOWER(text)
LowerChar(ch) ==
    IF \E k \in 1..Len(UpperCase) : UpperCase[k] = ch
    THEN LowerCase[CHOOSE k \in 1..Len(UpperCase) : UpperCase[k] = ch]
    ELSE ch
Lower(s) == [i \in 1..Len(s) |-> LowerChar(s[i])]

\* text LIKE pattern: % is any run of characters, _ any one character and a
\* backslash takes the next character of the pattern literally
RECURSIVE LikeAt(_, _, _, _)
LikeAt(s, i, p, j) ==
    IF j > Len(p) THEN i > Len(s)
    ELSE IF p[j] = "%" THEN \E k \in i..(Len(s) + 1) : LikeAt(s, k, p, j + 1)
    ELSE IF p[j] = "_" THEN i <= Len(s) /\ LikeAt(s, i + 1, p, j + 1)
    ELSE IF p[j] = "\\" /\ j < Len(p)
    THEN i <= Len(s) /\ s[i] = p[j + 1] /\ LikeAt(s, i + 1, p, j + 2)
    ELSE i <= Len(s) /\ s[i] = p[j] /\ LikeAt(s, i + 1, p, j + 1)
Like(s, p) == LikeAt(s, 1, p, 1)

\* WHERE LOWER(name) LIKE LOWER($1) OR LOWER(phone) LIKE LOWER($1) OR LOWER(city) LIKE LOWER($1)
Matches(r, pattern) ==
    \/ Like(Lower(r.name), Lower(pattern))
    \/ Like(Lower(r.phone), Lower(pattern))
    \/ Like(Lower(r.city), Lower(pattern))

\* the CASE of the ORDER BY clause
Tier(r, pattern) ==
    IF Like(Lower(r.name), Lower(pattern)) THEN 1
    ELSE IF Like(Lower(r.phone), Lower(pattern)) THEN 2
    ELSE IF Like(Lower(r.city), Lower(pattern)) THEN 3
    ELSE 4

\* name ASC: the order of the characters is that of their code points
CodeOrder == <<" ", "%", "0", "1", "2", "3", "4", "5", "6", "7", "8", "9">>
             \o UpperCase \o <<"\\", "_">> \o LowerCase
Code(ch) ==
    IF \E k \in 1..Len(CodeOrder) : CodeOrder[k] = ch
    THEN CHOOSE k \in 1..Len(CodeOrder) : CodeOrder[k] = ch
    ELSE 0
RECURSIVE StrLessAt(_, _, _)
StrLessAt(a, b, i) ==
    IF i > Len(b) THEN FALSE
    ELSE IF i > Len(a) THEN TRUE
    ELSE IF Code(a[i]) # Code(b[i]) THEN Code(a[i]) < Code(b[i])
    ELSE StrLessAt(a, b, i + 1)
StrLess(a, b) == StrLessAt(a, b, 1)

\* LIMIT 100
SearchLimit == 100
TakeMutant(list, n) == IF Len(list) <= n + 1 THEN list ELSE SubSeq(list, 1, n + 1)
Take(list, n) == IF Len(list) <= n THEN list ELSE SubSeq(list, 1, n)

Before(a, b, pattern) ==
    \/ Tier(a, pattern) < Tier(b, pattern)
    \/ Tier(a, pattern) = Tier(b, pattern) /\ StrLess(a.name, b.name)

\* every arrangement of a set of rows
RECURSIVE Arrangements(_)
Arrangements(rows) ==
    IF rows = {} THEN {<< >>}
    ELSE UNION {{<<r>> \o rest : rest \in Arrangements(rows \ {r})} : r \in rows}

\* each matching row with its CASE value, and with the number of rows the
\* ORDER BY clause puts before it
Tiered(rows, pattern) == {<<r, Tier(r, pattern)>> : r \in rows}
Ranked(tiered) ==
    {<<a[1], Cardinality({b \in tiered :
                            \/ b[2] < a[2]
                            \/ b[2] = a[2] /\ StrLess(b[1].name, a[1].name)})>> :
        a \in tiered}

\* the rows in every order the ORDER BY clause allows (rows it does not
\* tell apart come in any order): those that k rows precede, then the others
RECURSIVE InOrder(_, _)
InOrder(ranked, k) ==
    IF ranked = {} THEN {<< >>}
    ELSE LET tied == {a \in ranked : a[2] = k}
         IN  {first \o rest : first \in Arrangements({a[1] : a \in tied}),
                               rest \in InOrder(ranked \ tied, k + Cardinality(tied))}
Ordered(rows, pattern) == InOrder(Ranked(Tiered(rows, pattern)), 0)

\* the SELECT of SearchEmployees with its two patterns: the possible results
SearchStmt(tbl, searchPattern, exactSearchPattern) ==
    {Take(list, SearchLimit) :
        list \in Ordered({r \in tbl : Matches(r, searchPattern)}, exactSearchPattern)}

\* WHERE LOWER(city) = LOWER($1) of GetEmployeesByCity
CityMatchesMutant(r, city) == Like(Lower(r.city), Lower(city) \o <<"%">>)
CityMatches(r, city) == Lower(r.city) = Lower(city)

\* the SELECT of GetEmployeesByCity, ORDER BY name: the possible results
CityStmt(tbl, city) ==
    LET rows == {r \in tbl : CityMatches(r, city)}
    IN  InOrder({<<a, Cardinality({b \in rows : StrLess(b.name, a.name)})>> : a \in rows}, 0)

\* the column of a result row that is NULL
Null == "NULL"

\* (SELECT city FROM employees GROUP BY city ORDER BY COUNT(*) DESC LIMIT 1):
\* the values it can have, NULL when no row is stored
MostCommonCity(tbl) ==
    IF tbl = {} THEN {Null}
    ELSE {r.city : r \in {x \in tbl :
            \A y \in tbl : Cardinality({z \in tbl : z.city = y.city})
                            <= Cardinality({z \in tbl : z.city = x.city})}}

\* the SELECT of GetEmployeeStats: the rows it can return
StatsStmt(tbl) ==
    {[total |-> Cardinality(tbl), cities |-> Cardinality({r.city : r \in tbl}), city |-> m] :
        m \in MostCommonCity(tbl)}

\* EmployeeStats, and its zero value (also stands for a nil *EmployeeStats)
EmployeeStats(t, n, m) == [total |-> t, cities |-> n, city |-> m]
NoStats == EmployeeStats(0, 0, EmptyStr)

\* the SELECT EXISTS of CheckPhoneExists, excludeID the variadic argument
ExistsStmtMutant(tbl, phone, excludeID) == \E r \in tbl : r.phone = phone
ExistsStmt(tbl, phone, excludeID) ==
    IF Len(excludeID) > 0
    THEN \E r \in tbl : r.phone = phone /\ r.id # excludeID[1]
    ELSE \E r \in tbl : r.phone = phone

----------------------------------------------------------------------------
\* State

VARIABLES
    employees,   \* the rows of the employees table
    seq,         \* last value handed out by employees_id_seq
    pending,     \* per client: the repository call its request is about to make
    observed,    \* the clients whose outcomes are recorded
    resp,        \* per observed client: the outcome of its last completed request
    origin,      \* employees a successful create returned to an observed client,
                 \* whose row was neither updated nor deleted since
    deleted      \* ids whose deleteEmployee by an observed client succeeded

vars == <<employees, seq, pending, observed, resp, origin, deleted>>

Idle == [op |-> "idle", layer |-> "", emp |-> NoEmp, id |-> 0, query |-> EmptyStr]
Req(o, l, e, i, q) == [op |-> o, layer |-> l, emp |-> e, id |-> i, query |-> q]

\* outcome of a request: the request, the employee object it passed (Create
\* sets its ID), the error and the values returned, how many repository
\* methods were called and how many statements were issued, and the clients
\* whose requests were in flight when it returned
\* what a repository method returned to the service: error, employee, list
RepoResult(err, val, list) == [err |-> err, val |-> val, list |-> list]
NoRepo == RepoResult(NilErr, NoEmp, << >>)

Resp(r, e, err, val, list, calls, stmts) ==
    [op |-> r.op, layer |-> r.layer, emp |-> e, id |-> r.id,
     query |-> r.query, err |-> err, val |-> val, list |-> list,
     repoCalls |-> calls, stmts |-> stmts, inflight |-> {},
     status |-> 0, message |-> << >>, stats |-> NoStats, exists |-> FALSE,
     repo |-> NoRepo, body |-> NoBody]

NoResp == Resp(Idle, NoEmp, NilErr, NoEmp, << >>, 0, 0)

Empty ==
    /\ employees = {}
    /\ seq = 0
    /\ pending = [c \in Clients |-> Idle]
    /\ resp = [c \in Clients |-> NoResp]
    /\ origin = {}
    /\ deleted = {}

Init == Empty /\ observed = Clients

\* the request of client c enters the repository
Call(c, r) ==
    /\ pending' = [pending EXCEPT ![c] = r]
    /\ resp' = [resp EXCEPT ![c] = NoResp]
    /\ UNCHANGED observed

\* the return statement of a service method after its repository call:
\* return s.repo.<Method>(ctx, ...)
ServiceReturnMutant(out) ==
    IF out.err = NilErr THEN out ELSE [out EXCEPT !.err = Wrapped(out.op, out.err.cause)]
ServiceReturn(out) == out

\* a return that leaves the request in the repository when the statement did
\* not reach the store
ReturnMutant(c, out) ==
    /\ pending' = [pending EXCEPT ![c] =
                        IF out.err.kind = "wrapped" /\ out.err.cause = ConnFailed
                        THEN pending[c] ELSE Idle]
    /\ resp' = IF c \in observed THEN [resp EXCEPT ![c] = out] ELSE resp
    /\ UNCHANGED observed

\* the request of client c returns: out is the outcome of the repository
\* method when one was called, and else the outcome of the service itself
Return(c, out) ==
    /\ pending' = [pending EXCEPT ![c] = Idle]
    /\ resp' = IF c \in observed
               THEN LET ret == IF out.layer = "service" /\ out.repoCalls > 0
                               THEN ServiceReturn(out) ELSE out
                    IN  [resp EXCEPT ![c] =
                        [ret EXCEPT
                            !.inflight = {d \in Clients \ {c} : pending[d] # Idle},
                            !.status = IF ret.layer = "service"
                                       THEN HandlerStatus(ret.op, ret.err)[1]
                                       ELSE ret.status,
                            !.message = IF ret.layer = "service"
                                        THEN HandlerStatus(ret.op, ret.err)[2]
                                        ELSE ret.message,
                            !.body = IF ret.layer = "service" /\ ret.err = NilErr
                                     THEN HandlerBody(ret.op, ret.emp, ret.val, ret.list)
                                     ELSE NoBody,
                            !.repo = IF out.repoCalls > 0
                                     THEN RepoResult(out.err, out.val, out.list)
                                     ELSE NoRepo]]
               ELSE resp
    /\ UNCHANGED observed

----------------------------------------------------------------------------
\* Service

\* employeeService.validateEmployee
validateEmployeeMutant(e) ==
    IF e.phone = EmptyStr THEN ValidationError("phone")
    ELSE IF e.name = EmptyStr THEN ValidationError("name")
    ELSE IF e.city = EmptyStr THEN ValidationError("city")
    ELSE NilErr
validateEmployee(e) ==
    IF e.name = EmptyStr THEN ValidationError("name")
    ELSE IF e.phone = EmptyStr THEN ValidationError("phone")
    ELSE IF e.city = EmptyStr THEN ValidationError("city")
    ELSE NilErr

\* creates in flight: each will draw a value from the sequence
PendingCreates == Cardinality({c \in Clients : pending[c].op = "create"})

\* employeeService.CreateEmployee up to its call of repo.Create
CreateEmployee(c, e) ==
    /\ pending[c] = Idle
    /\ seq + PendingCreates < MaxSeq
    /\ IF validateEmployee(e) # NilErr
       THEN Return(c, Resp(Req("create", "service", e, 0, EmptyStr), e,
                           validateEmployee(e), NoEmp, << >>, 0, 0))
       ELSE Call(c, Req("create", "service", e, 0, EmptyStr))
    /\ UNCHANGED <<employees, seq, origin, deleted>>

\* employeeService.GetEmployee up to its call of repo.GetByID
GetEmployee(c, i) ==
    /\ pending[c] = Idle
    /\ Call(c, Req("get", "service", NoEmp, i, EmptyStr))
    /\ UNCHANGED <<employees, seq, origin, deleted>>

\* employeeService.GetAllEmployees up to its call of repo.GetAll
GetAllEmployees(c) ==
    /\ pending[c] = Idle
    /\ Call(c, Req("getall", "service", NoEmp, 0, EmptyStr))
    /\ UNCHANGED <<employees, seq, origin, deleted>>

\* employeeService.UpdateEmployee up to its call of repo.Update
UpdateEmployee(c, e) ==
    /\ pending[c] = Idle
    /\ IF validateEmployee(e) # NilErr
       THEN Return(c, Resp(Req("update", "service", e, e.id, EmptyStr), e,
                           validateEmployee(e), NoEmp, << >>, 0, 0))
       ELSE Call(c, Req("update", "service", e, e.id, EmptyStr))
    /\ UNCHANGED <<employees, seq, origin, deleted>>

\* employeeService.DeleteEmployee up to its call of repo.Delete
DeleteEmployee(c, i) ==
    /\ pending[c] = Idle
    /\ Call(c, Req("delete", "service", NoEmp, i, EmptyStr))
    /\ UNCHANGED <<employees, seq, origin, deleted>>

\* the limits of the service on the length of a trimmed query
MinQueryLen == 2
MaxQueryLen == 100

\* the query validation of employeeService.SearchEmployees
validateQueryMutant(q) ==
    IF TrimSpace(q) = EmptyStr THEN ValidationError("query")
    ELSE IF Len(TrimSpace(q)) > MaxQueryLen + 1 THEN ValidationError("query")
    ELSE NilErr
validateQuery(q) ==
    IF TrimSpace(q) = EmptyStr THEN ValidationError("query")
    ELSE IF Len(TrimSpace(q)) < MinQueryLen THEN ValidationError("query")
    ELSE IF Len(TrimSpace(q)) > MaxQueryLen THEN ValidationError("query")
    ELSE NilErr

\* employeeService.SearchEmployees up to its call of repo.SearchEmployees
SearchEmployees(c, q) ==
    /\ pending[c] = Idle
    /\ IF validateQuery(q) # NilErr
       THEN Return(c, Resp(Req("search", "service", NoEmp, 0, q), NoEmp,
                           validateQuery(q), NoEmp, << >>, 0, 0))
       ELSE Call(c, Req("search", "service", NoEmp, 0, TrimSpace(q)))
    /\ UNCHANGED <<employees, seq, origin, deleted>>

\* EmployeeHandler.SearchEmployees: a request without q is refused, any
\* other goes to the service
HandlerSearchEmployees(c, q) ==
    IF q = EmptyStr
    THEN /\ pending[c] = Idle
         /\ Return(c, [Resp(Req("search", "handler", NoEmp, 0, q), NoEmp, NilErr, NoEmp,
                             << >>, 0, 0)
                          EXCEPT !.status = StatusBadRequest, !.message = MissingQuery])
         /\ UNCHANGED <<employees, seq, origin, deleted>>
    ELSE SearchEmployees(c, q)

\* a caller of the repository itself (its tests): SearchEmployees
CallRepoSearch(c, q) ==
    /\ pending[c] = Idle
    /\ Call(c, Req("search", "repository", NoEmp, 0, q))
    /\ UNCHANGED <<employees, seq, origin, deleted>>

\* a caller of the repository itself: GetEmployeesByCity
CallRepoByCity(c, city) ==
    /\ pending[c] = Idle
    /\ Call(c, Req("bycity", "repository", NoEmp, 0, city))
    /\ UNCHANGED <<employees, seq, origin, deleted>>

\* a caller of the repository itself: GetByPhone
CallRepoGetByPhone(c, phone) ==
    /\ pending[c] = Idle
    /\ Call(c, Req("byphone", "repository", NoEmp, 0, phone))
    /\ UNCHANGED <<employees, seq, origin, deleted>>

\* a caller of the repository itself: GetEmployeeStats
CallRepoStats(c) ==
    /\ pending[c] = Idle
    /\ Call(c, Req("stats", "repository", NoEmp, 0, EmptyStr))
    /\ UNCHANGED <<employees, seq, origin, deleted>>

\* a caller of the repository itself: CheckPhoneExists(phone), and
\* CheckPhoneExists(phone, excludeID) when excludeID holds an id
CallRepoCheckPhoneExists(c, phone, excludeID) ==
    /\ pending[c] = Idle
    /\ Call(c, IF Len(excludeID) > 0
               THEN Req("phoneexistsexcept", "repository", NoEmp, excludeID[1], phone)
               ELSE Req("phoneexists", "repository", NoEmp, 0, phone))
    /\ UNCHANGED <<employees, seq, origin, deleted>>

----------------------------------------------------------------------------
\* Repository

\* employeeRepository.Create
RepoCreate(c) ==
    /\ pending[c].op = "create"
    /\ \E fault \in Faults :
        LET r == pending[c]
            res == InsertStmt(employees, seq, r.emp)
            created == [r.emp EXCEPT !.id = res.id]
        IN  IF fault = ConnFailed
            THEN /\ Return(c, Resp(r, r.emp, Wrapped("create", fault), NoEmp, << >>, 1, 1))
                 /\ UNCHANGED <<employees, seq, origin>>
            ELSE /\ employees' = res.tbl
                 /\ seq' = res.seq
                 /\ IF fault = ReplyLost
                    THEN /\ Return(c, Resp(r, r.emp, Wrapped("create", fault), NoEmp,
                                           << >>, 1, 1))
                         /\ UNCHANGED origin
                    ELSE IF res.sqlstate # ""
                    THEN /\ Return(c, Resp(r, r.emp, Wrapped("create", res.sqlstate),
                                           NoEmp, << >>, 1, 1))
                         /\ UNCHANGED origin
                    ELSE /\ Return(c, Resp(r, created, NilErr, NoEmp, << >>, 1, 1))
                         /\ origin' = IF c \in observed THEN origin \cup {created}
                                      ELSE origin
    /\ UNCHANGED deleted

\* employeeRepository.GetByID
RepoGetByID(c) ==
    /\ pending[c].op = "get"
    /\ \E fault \in Faults :
        LET r == pending[c]
        IN  Return(c, IF fault # NoFault
                      THEN Resp(r, NoEmp, Wrapped("get", fault), NoEmp, << >>, 1, 1)
                      ELSE IF r.id \notin Ids(employees)
                      THEN Resp(r, NoEmp, NotFoundError("employee", r.id), NoEmp,
                                << >>, 1, 1)
                      ELSE Resp(r, NoEmp, NilErr, Row(employees, r.id), << >>, 1, 1))
    /\ UNCHANGED <<employees, seq, origin, deleted>>

\* employeeRepository.GetAll
RepoGetAll(c) ==
    /\ pending[c].op = "getall"
    /\ \E fault \in Faults :
        LET r == pending[c]
        IN  Return(c, IF fault # NoFault
                      THEN Resp(r, NoEmp, Wrapped("getall", fault), NoEmp, << >>, 1, 1)
                      ELSE Resp(r, NoEmp, NilErr, NoEmp, OrderById(employees), 1, 1))
    /\ UNCHANGED <<employees, seq, origin, deleted>>

\* employeeRepository.GetEmployeesByCity
RepoGetEmployeesByCity(c) ==
    /\ pending[c].op = "bycity"
    /\ LET r == pending[c]
       IN  \E fault \in Faults :
            IF fault # NoFault
            THEN Return(c, Resp(r, NoEmp, Wrapped("bycity", fault), NoEmp, << >>, 1, 1))
            ELSE \E list \in CityStmt(employees, r.query) :
                    Return(c, Resp(r, NoEmp, NilErr, NoEmp, list, 1, 1))
    /\ UNCHANGED <<employees, seq, origin, deleted>>

\* employeeRepository.GetByPhone
RepoGetByPhone(c) ==
    /\ pending[c].op = "byphone"
    /\ \E fault \in Faults :
        LET r == pending[c]
            rows == {x \in employees : x.phone = r.query}
        IN  Return(c, IF fault # NoFault
                      THEN Resp(r, NoEmp, Wrapped("byphone", fault), NoEmp, << >>, 1, 1)
                      ELSE IF rows = {}
                      THEN Resp(r, NoEmp, NotFoundData("employee by phone", r.query),
                                NoEmp, << >>, 1, 1)
                      ELSE Resp(r, NoEmp, NilErr, CHOOSE x \in rows : TRUE, << >>, 1, 1))
    /\ UNCHANGED <<employees, seq, origin, deleted>>

\* employeeRepository.GetEmployeeStats
RepoGetEmployeeStats(c) ==
    /\ pending[c].op = "stats"
    /\ LET r == pending[c]
       IN  \E fault \in Faults :
            IF fault # NoFault
            THEN Return(c, Resp(r, NoEmp, Wrapped("stats", fault), NoEmp, << >>, 1, 1))
            ELSE \E row \in StatsStmt(employees) :
                    Return(c, IF row.city = Null
                              THEN Resp(r, NoEmp, Wrapped("stats", ScanNull), NoEmp,
                                        << >>, 1, 1)
                              ELSE [Resp(r, NoEmp, NilErr, NoEmp, << >>, 1, 1)
                                        EXCEPT !.stats = EmployeeStats(row.total,
                                                            row.cities, row.city)])
    /\ UNCHANGED <<employees, seq, origin, deleted>>

\* employeeRepository.CheckPhoneExists
RepoCheckPhoneExists(c) ==
    /\ pending[c].op \in {"phoneexists", "phoneexistsexcept"}
    /\ \E fault \in Faults :
        LET r == pending[c]
            excludeID == IF r.op = "phoneexistsexcept" THEN <<r.id>> ELSE << >>
        IN  Return(c, IF fault # NoFault
                      THEN Resp(r, NoEmp, Wrapped("phoneexists", fault), NoEmp, << >>, 1, 1)
                      ELSE [Resp(r, NoEmp, NilErr, NoEmp, << >>, 1, 1)
                                EXCEPT !.exists = ExistsStmt(employees, r.query, excludeID)])
    /\ UNCHANGED <<employees, seq, origin, deleted>>

\* employeeRepository.SearchEmployees
RepoSearch(c) ==
    /\ pending[c].op = "search"
    /\ LET r == pending[c]
           searchQuery == TrimSpace(r.query)
       IN  IF searchQuery = EmptyStr
           THEN Return(c, Resp(r, NoEmp, NilErr, NoEmp, << >>, 1, 0))
           ELSE \E fault \in Faults :
                IF fault # NoFault
                THEN Return(c, Resp(r, NoEmp, Wrapped("search", fault), NoEmp, << >>, 1, 1))
                ELSE \E list \in SearchStmt(employees, <<"%">> \o searchQuery \o <<"%">>,
                                            searchQuery \o <<"%">>) :
                        Return(c, Resp(r, NoEmp, NilErr, NoEmp, list, 1, 1))
    /\ UNCHANGED <<employees, seq, origin, deleted>>

\* employeeRepository.Update
RepoUpdate(c) ==
    /\ pending[c].op = "update"
    /\ \E fault \in Faults :
        LET r == pending[c]
        IN  IF fault = ConnFailed
            THEN /\ Return(c, Resp(r, r.emp, Wrapped("update", fault), NoEmp, << >>, 1, 1))
                 /\ UNCHANGED <<employees, origin>>
            ELSE \E res \in UpdateStmt(employees, r.emp) :
                 /\ employees' = res.tbl
                 /\ origin' = IF res.rows = 0 THEN origin
                              ELSE {o \in origin : o.id # r.emp.id}
                 /\ Return(c, IF fault = ReplyLost
                              THEN Resp(r, r.emp, Wrapped("update", fault), NoEmp,
                                        << >>, 1, 1)
                              ELSE IF res.sqlstate # ""
                              THEN Resp(r, r.emp, Wrapped("update", res.sqlstate),
                                        NoEmp, << >>, 1, 1)
                              ELSE IF res.rows = 0
                              THEN Resp(r, r.emp, NotFoundError("employee", r.emp.id),
                                        NoEmp, << >>, 1, 1)
                              ELSE Resp(r, r.emp, NilErr, NoEmp, << >>, 1, 1))
    /\ UNCHANGED <<seq, deleted>>

\* employeeRepository.Delete
RepoDelete(c) ==
    /\ pending[c].op = "delete"
    /\ \E fault \in Faults :
        LET r == pending[c]
            res == DeleteStmt(employees, r.id)
        IN  IF fault = ConnFailed
            THEN /\ Return(c, Resp(r, NoEmp, Wrapped("delete", fault), NoEmp, << >>, 1, 1))
                 /\ UNCHANGED <<employees, origin, deleted>>
            ELSE /\ employees' = res.tbl
                 /\ origin' = {o \in origin : o.id # r.id}
                 /\ IF fault = ReplyLost
                    THEN /\ Return(c, Resp(r, NoEmp, Wrapped("delete", fault), NoEmp,
                                           << >>, 1, 1))
                         /\ UNCHANGED deleted
                    ELSE IF res.rows = 0
                    THEN /\ Return(c, Resp(r, NoEmp, NotFoundError("employee", r.id),
                                           NoEmp, << >>, 1, 1))
                         /\ UNCHANGED deleted
                    ELSE /\ Return(c, Resp(r, NoEmp, NilErr, NoEmp, << >>, 1, 1))
                         /\ deleted' = IF c \in observed THEN deleted \cup {r.id}
                                       ELSE deleted
    /\ UNCHANGED seq

\* Create, GetByID, GetAll, Update or Delete when the statement does not
\* reach the store and the error of the driver has a text with "not found":
\* the method wraps it like every other error of its statement. The fault
\* is ConnFailed with another text, kept apart from Faults so that only the
\* specification of the request interface draws it.
RepoStatementFails(c) ==
    /\ pending[c].op \in {"create", "get", "getall", "update", "delete"}
    /\ LET r == pending[c]
       IN  Return(c, Resp(r, r.emp, Wrapped(r.op, TextNotFound), NoEmp, << >>, 1, 1))
    /\ UNCHANGED <<employees, seq, origin, deleted>>

----------------------------------------------------------------------------
\* Inputs of the requests

\* ids a request can name: every id the sequence can hand out
RequestIds == 1..MaxSeq

\* employees: every combination of empty fields, and every phone
Employees ==
    {Emp(0, n, p, c) : n \in {EmptyStr, Ann}, p \in {EmptyStr, Phone1}, c \in {EmptyStr, Almaty}}
    \cup {Emp(0, Ann, p, Almaty) : p \in {Phone2, PaddedPhone, WidePhone}}

\* updates: an employee that passes validation for every id, one that does
\* not for the first id
Updates ==
    {[e EXCEPT !.id = i] : e \in {x \in Employees : validateEmployee(x) = NilErr},
                           i \in RequestIds}
    \cup {[e EXCEPT !.id = 1] : e \in Employees}

\* queries: a core, bare or wrapped in white space
Cores == {EmptyStr, <<"a">>, <<"a", "n">>, <<"7", "7">>, <<"_", "o">>,
          Rep("a", MaxQueryLen), Rep("a", MaxQueryLen + 1)}
Queries == Cores \cup {<<" ">> \o q \o <<"\t", " ">> : q \in Cores}

\* one request at a time: create, read, update and delete
Next ==
    \/ \E e \in Employees : CreateEmployee(1, e)
    \/ \E i \in RequestIds : GetEmployee(1, i)
    \/ GetAllEmployees(1)
    \/ \E e \in Updates : UpdateEmployee(1, e)
    \/ \E i \in RequestIds : DeleteEmployee(1, i)
    \/ RepoCreate(1)
    \/ RepoGetByID(1)
    \/ RepoGetAll(1)
    \/ RepoUpdate(1)
    \/ RepoDelete(1)

Spec == Init /\ [][Next]_vars

\* one request at a time: create and search
SearchedEmployees == {Emp(0, Ann, Phone1, Almaty), Emp(0, Bob, Phone2, Almaty),
                      Emp(0, Ann, Phone3, Oslo)}

NextSearch ==
    \/ \E e \in SearchedEmployees : CreateEmployee(1, e)
    \/ \E q \in Queries : SearchEmployees(1, q)
    \/ \E q \in Queries : CallRepoSearch(1, q)
    \/ RepoCreate(1)
    \/ RepoSearch(1)

SpecSearch == Init /\ [][NextSearch]_vars

\* requests of all clients in flight together: create, update and delete
ConcurrentEmployees == {Emp(0, Ann, Phone1, Almaty), Emp(0, Ann, Phone2, Almaty)}

NextConc ==
    \E c \in Clients :
        \/ \E e \in ConcurrentEmployees : CreateEmployee(c, e)
        \/ \E e \in ConcurrentEmployees, i \in RequestIds :
                UpdateEmployee(c, [e EXCEPT !.id = i])
        \/ \E i \in RequestIds : DeleteEmployee(c, i)
        \/ RepoCreate(c)
        \/ RepoUpdate(c)
        \/ RepoDelete(c)

\* the concurrent requests run with no outcome recorded
InitConc == Empty /\ observed = {}

SpecConc == InitConc /\ [][NextConc]_vars

\* creates of all clients in flight together, one request each
RacingEmployees == {Emp(0, Ann, Phone1, Almaty), Emp(0, Bob, Phone1, Almaty),
                    Emp(0, Ann, Phone2, Almaty)}

NextRace ==
    \E c \in Clients :
        \/ \E e \in RacingEmployees : resp[c] = NoResp /\ CreateEmployee(c, e)
        \/ RepoCreate(c)

SpecRace == Init /\ [][NextRace]_vars

\* one request at a time through the endpoints
HttpEmployees == {Emp(0, Ann, Phone1, Almaty), Emp(0, Bob, Phone1, Almaty),
                  Emp(0, Bob, Phone3, Oslo),
                  Emp(0, EmptyStr, Phone2, Almaty), Emp(0, Ann, Phone2, EmptyStr)}
HttpQueries == {EmptyStr, <<" ">>, <<"a">>, <<"a", "n">>}

NextHttp ==
    \/ \E e \in HttpEmployees : CreateEmployee(1, e)
    \/ \E i \in RequestIds : GetEmployee(1, i)
    \/ GetAllEmployees(1)
    \/ \E e \in HttpEmployees, i \in RequestIds : UpdateEmployee(1, [e EXCEPT !.id = i])
    \/ \E i \in RequestIds : DeleteEmployee(1, i)
    \/ \E q \in HttpQueries : HandlerSearchEmployees(1, q)
    \/ RepoCreate(1)
    \/ RepoGetByID(1)
    \/ RepoGetAll(1)
    \/ RepoUpdate(1)
    \/ RepoDelete(1)
    \/ RepoSearch(1)
    \/ RepoStatementFails(1)

SpecHttp == Init /\ [][NextHttp]_vars

\* one request at a time: create and the employees of a city
AlmatyLower == <<"a", "l", "m", "a", "t", "y">>
Alma == <<"A", "l", "m", "a">>
Astana == <<"A", "s", "t", "a", "n", "a">>
CityEmployees == {Emp(0, Bob, Phone1, Almaty), Emp(0, Ann, Phone2, AlmatyLower),
                  Emp(0, Ann, Phone3, Astana), Emp(0, Bob, Phone1, Alma)}
Cities == {AlmatyLower, Alma, Astana}

NextCity ==
    \/ \E e \in CityEmployees : CreateEmployee(1, e)
    \/ \E city \in Cities : CallRepoByCity(1, city)
    \/ RepoCreate(1)
    \/ RepoGetEmployeesByCity(1)

SpecCity == Init /\ [][NextCity]_vars

\* a table about as large as the limit of the search: row i was created i-th;
\* the names run against the ids, the odd rows' begin with e, the even rows'
\* with x, and every city begins with E
Surplus == 2
Digit == <<"0", "1", "2", "3", "4", "5", "6", "7", "8", "9">>
Digits3(i) ==
    <<Digit[((i \div 100) % 10) + 1], Digit[((i \div 10) % 10) + 1], Digit[(i % 10) + 1]>>
Ekb == <<"E", "k", "b">>
LargeRow(i) ==
    Emp(i, (IF i % 2 = 1 THEN <<"e">> ELSE <<"x">>) \o Digits3(200 - i),
        <<"7">> \o Digits3(i), Ekb)
LargeTable(n) == {LargeRow(i) : i \in 1..n}
LargeQueries == {<<"e">>, <<"7">>, <<"x", "1">>, <<" ", "E", "1", " ">>}

InitLarge ==
    /\ \E n \in (SearchLimit - 1)..(SearchLimit + Surplus) :
            employees = LargeTable(n) /\ seq = n
    /\ pending = [c \in Clients |-> Idle]
    /\ resp = [c \in Clients |-> NoResp]
    /\ origin = {}
    /\ deleted = {}
    /\ observed = Clients

\* one request at a time on the large table: search, and delete of the first row
NextLarge ==
    \/ \E q \in LargeQueries : CallRepoSearch(1, q)
    \/ DeleteEmployee(1, 1)
    \/ RepoSearch(1)
    \/ RepoDelete(1)

SpecLarge == InitLarge /\ [][NextLarge]_vars

\* every method of the repository, create, update and delete through the
\* service
StoredEmployees == {Emp(0, Ann, Phone1, Almaty), Emp(0, Bob, Phone2, Almaty),
                    Emp(0, Ann, Phone3, Oslo), Emp(0, EmptyStr, Phone1, Oslo)}
StoredUpdates == {Emp(i, Bob, Phone1, Oslo) : i \in RequestIds}
Phones == {Phone1, Phone3}
Exclusions == {<< >>} \cup {<<i>> : i \in 0..2}
NextRepo ==
    \/ \E e \in StoredEmployees : CreateEmployee(1, e)
    \/ \E i \in RequestIds : GetEmployee(1, i)
    \/ GetAllEmployees(1)
    \/ \E e \in StoredUpdates : UpdateEmployee(1, e)
    \/ \E i \in RequestIds : DeleteEmployee(1, i)
    \/ CallRepoSearch(1, <<"a">>)
    \/ CallRepoByCity(1, Oslo)
    \/ \E p \in Phones : CallRepoGetByPhone(1, p)
    \/ CallRepoStats(1)
    \/ \E p \in Phones, x \in Exclusions : CallRepoCheckPhoneExists(1, p, x)
    \/ RepoCreate(1)
    \/ RepoGetByID(1)
    \/ RepoGetAll(1)
    \/ RepoGetEmployeesByCity(1)
    \/ RepoGetByPhone(1)
    \/ RepoGetEmployeeStats(1)
    \/ RepoCheckPhoneExists(1)
    \/ RepoSearch(1)
    \/ RepoUpdate(1)
    \/ RepoDelete(1)

SpecRepo == Init /\ [][NextRepo]_vars

----------------------------------------------------------------------------
\* Properties

IsFault(err) == err.kind = "wrapped" /\ err.cause \in {ConnFailed, ReplyLost, TextNotFound}
\* the unique index rejected the statement
IsConstraintViolation(err) == err.kind = "wrapped" /\ err.cause = UniqueViolation

NonEmptyFields(e) == e.name # EmptyStr /\ e.phone # EmptyStr /\ e.city # EmptyStr

\* this step returns a request of client c
Completes(c) == pending'[c] = Idle /\ (pending[c] # Idle \/ resp'[c] # resp[c])

\* C1: in every state reachable by the creates, updates and deletes of the
\* clients, in any interleaving, no two rows of the table hold the same phone
C1_PhoneUnique ==
    \A r1 \in employees, r2 \in employees : r1.phone = r2.phone => r1 = r2

\* two rows are stored while a create of a phone one of them holds is in flight
C1_Witness ==
    /\ Cardinality(employees) >= 2
    /\ \E c \in Clients : /\ pending[c].op = "create"
                          /\ \E r \in employees : r.phone = pending[c].emp.phone

\* C2: of the creates of one phone that ran together on the empty table, none
\* hit by a connection fault, exactly one succeeded and every other failed
\* with the unique violation; the table holds exactly one row with the phone
CreatesOf(p) == {c \in Clients : resp[c].op = "create" /\ resp[c].emp.phone = p}
C2_OneCreateWins ==
    \A e \in RacingEmployees :
        LET done == CreatesOf(e.phone)
        IN  (done # {} /\ \A c \in done : ~IsFault(resp[c].err))
            => /\ Cardinality({c \in done : resp[c].err = NilErr}) = 1
               /\ \A c \in done : resp[c].err # NilErr => IsConstraintViolation(resp[c].err)
               /\ Cardinality({r \in employees : r.phone = e.phone}) = 1

\* two creates of one phone were in flight together: one succeeded, one failed
C2_Witness ==
    \E c1 \in Clients, c2 \in Clients :
        /\ c1 # c2
        /\ resp[c1].op = "create" /\ resp[c2].op = "create"
        /\ resp[c1].emp.phone = resp[c2].emp.phone
        /\ c2 \in resp[c1].inflight
        /\ resp[c1].err = NilErr
        /\ IsConstraintViolation(resp[c2].err)
        /\ Cardinality({r \in employees : r.phone = resp[c1].emp.phone}) = 1

\* C3: createEmployee of an employee with an empty name, phone or city returns
\* a ValidationError for the first empty field in the order name, phone, city,
\* calls no repository method and leaves the table as it was
C3_CreateValidation ==
    [][\A c \in Clients :
        (Completes(c) /\ resp'[c].op = "create" /\ ~NonEmptyFields(resp'[c].emp))
        => LET e == resp'[c].emp
               err == resp'[c].err
           IN  /\ err.kind = "ValidationError"
               /\ err.field \in {"name", "phone", "city"}
               /\ err.field = "name" => e.name = EmptyStr
               /\ err.field = "phone" => e.name # EmptyStr /\ e.phone = EmptyStr
               /\ err.field = "city" =>
                    e.name # EmptyStr /\ e.phone # EmptyStr /\ e.city = EmptyStr
               /\ resp'[c].repoCalls = 0
               /\ resp'[c].stmts = 0
               /\ employees' = employees
               /\ seq' = seq]_vars

\* a create with a name, no phone and no city was refused for its phone,
\* while the table holds a row
C3_Witness ==
    /\ resp[1].op = "create"
    /\ resp[1].emp.name # EmptyStr
    /\ resp[1].emp.phone = EmptyStr
    /\ resp[1].emp.city = EmptyStr
    /\ resp[1].err = ValidationError("phone")
    /\ employees # {}

\* C4 as stated: every create of an employee with non-empty name, phone and
\* city that no connection fault hit succeeded and assigned a positive id
C4_Original ==
    \A c \in Clients :
        (resp[c].op = "create" /\ NonEmptyFields(resp[c].emp) /\ ~IsFault(resp[c].err))
        => resp[c].err = NilErr /\ resp[c].emp.id > 0

\* C4, amended: createEmployee of an employee whose name, phone and city are
\* non-empty and fit their columns, and whose phone no stored row holds when
\* the insert runs, succeeds unless a connection fault hits it; the id it
\* assigns is positive, was never handed out before, belongs to no other row,
\* and the row stored under it holds the submitted fields
C4_CreateSucceeds ==
    [][\A c \in Clients :
        (/\ Completes(c)
         /\ resp'[c].op = "create"
         /\ NonEmptyFields(resp'[c].emp)
         /\ Len(resp'[c].emp.name) <= NameLen
         /\ Len(resp'[c].emp.phone) <= PhoneLen
         /\ Len(resp'[c].emp.city) <= CityLen
         /\ \A r \in employees : r.phone # resp'[c].emp.phone
         /\ ~IsFault(resp'[c].err))
        => LET e == resp'[c].emp
           IN  /\ resp'[c].err = NilErr
               /\ e.id > 0
               /\ e.id > seq
               /\ \A r \in employees : r.id # e.id
               /\ employees' = employees \cup {e}]_vars

\* a create succeeded with the second id or a later one while other rows
\* are stored
C4_Witness ==
    /\ resp[1].op = "create"
    /\ resp[1].err = NilErr
    /\ resp[1].emp.id >= 2
    /\ resp[1].emp \in employees
    /\ Cardinality(employees) >= 2

\* C5: getEmployee(i) of an employee that createEmployee returned with id i,
\* not updated or deleted since, returns id i and the name, phone and city
\* that were submitted
C5_RoundTrip ==
    \A c \in Clients :
        (/\ resp[c].op = "get"
         /\ ~IsFault(resp[c].err)
         /\ \E o \in origin : o.id = resp[c].id)
        => /\ resp[c].err = NilErr
           /\ resp[c].val \in origin

\* C6: a delete of an id that an earlier delete removed, not hit by a
\* connection fault, returns the NotFoundError of that id and leaves the
\* table as it was
C6_SecondDelete ==
    [][\A c \in Clients :
        (/\ Completes(c)
         /\ resp'[c].op = "delete"
         /\ resp'[c].id \in deleted
         /\ ~IsFault(resp'[c].err))
        => /\ resp'[c].err = NotFoundError("employee", resp'[c].id)
           /\ employees' = employees]_vars

\* the second delete of an id was refused while another row is stored
C6_Witness ==
    /\ resp[1].op = "delete"
    /\ resp[1].id \in deleted
    /\ resp[1].err.kind = "NotFoundError"
    /\ employees # {}

\* C7: an update with non-empty fields that fit their columns and an id no
\* row has, not hit by a connection fault, returns the NotFoundError of that
\* id, not the wrapped store error, adds no row and leaves every row as it was
C7_UpdateMissing ==
    [][\A c \in Clients :
        (/\ Completes(c)
         /\ resp'[c].op = "update"
         /\ NonEmptyFields(resp'[c].emp)
         /\ Len(resp'[c].emp.name) <= NameLen
         /\ Len(resp'[c].emp.phone) <= PhoneLen
         /\ Len(resp'[c].emp.city) <= CityLen
         /\ \A r \in employees : r.id # resp'[c].emp.id
         /\ ~IsFault(resp'[c].err))
        => /\ resp'[c].err = NotFoundError("employee", resp'[c].emp.id)
           /\ resp'[c].err.kind # "wrapped"
           /\ employees' = employees]_vars

\* an update of a missing id whose phone a stored row holds was refused with
\* NotFoundError
C7_Witness ==
    /\ resp[1].op = "update"
    /\ resp[1].err.kind = "NotFoundError"
    /\ \A r \in employees : r.id # resp[1].emp.id
    /\ \E r \in employees : r.phone = resp[1].emp.phone

\* the number of characters of q from its first to its last non-space one
RECURSIVE FirstNonSpace(_, _)
FirstNonSpace(q, i) ==
    IF i > Len(q) THEN 0 ELSE IF ~IsSpace(q[i]) THEN i ELSE FirstNonSpace(q, i + 1)
RECURSIVE LastNonSpace(_, _)
LastNonSpace(q, i) ==
    IF i < 1 THEN 0 ELSE IF ~IsSpace(q[i]) THEN i ELSE LastNonSpace(q, i - 1)
TrimmedLen(q) ==
    IF FirstNonSpace(q, 1) = 0 THEN 0
    ELSE LastNonSpace(q, Len(q)) - FirstNonSpace(q, 1) + 1

\* the outcomes of the service's searches
ServiceSearches == {c \in Clients : resp[c].op = "search" /\ resp[c].layer = "service"}

\* C8: the service's searchEmployees(q) returns a ValidationError when q has,
\* after trimming, no character, fewer than 2 or more than 100; for a trimmed
\* length of 2 to 100 it returns no ValidationError but what the repository's
\* search of the trimmed query returns
C8_SearchValidation ==
    \A c \in ServiceSearches :
        LET n == TrimmedLen(resp[c].query)
            q == resp[c].query
        IN  /\ (n < 2 \/ n > 100) =>
                /\ resp[c].err.kind = "ValidationError"
                /\ resp[c].list = << >>
            /\ (n >= 2 /\ n <= 100) =>
                /\ resp[c].err.kind # "ValidationError"
                /\ resp[c].repoCalls = 1
                /\ resp[c].err # NilErr => IsFault(resp[c].err) /\ resp[c].list = << >>
                /\ resp[c].err = NilErr =>
                     resp[c].list \in SearchStmt(employees, <<"%">> \o q \o <<"%">>,
                                                 q \o <<"%">>)

\* a search of a two-character query returned the rows the repository found
C8_Witness ==
    /\ resp[1].op = "search"
    /\ resp[1].layer = "service"
    /\ TrimmedLen(resp[1].query) = 2
    /\ resp[1].err = NilErr
    /\ Len(resp[1].list) >= 2

\* C9: the service calls the repository's search only with a query of a
\* trimmed length of 2 to 100: a query that is empty or all white space is
\* refused before any repository call
C9_RepoSearchGuard ==
    /\ \A c \in Clients :
        (pending[c].op = "search" /\ pending[c].layer = "service")
        => TrimmedLen(pending[c].query) \in 2..100
    /\ \A c \in ServiceSearches :
        /\ resp[c].repoCalls > 0 => TrimmedLen(resp[c].query) \in 2..100
        /\ TrimmedLen(resp[c].query) = 0 => resp[c].repoCalls = 0 /\ resp[c].stmts = 0

\* the service's call of the repository's search with a 100-character query
\* is in flight
C9_Witness ==
    /\ pending[1].op = "search"
    /\ pending[1].layer = "service"
    /\ TrimmedLen(pending[1].query) = 100
    /\ employees # {}

\* C10: the repository's SearchEmployees of a query that is empty after
\* trimming returns the empty list and no error, and issues no statement
C10_EmptyQuery ==
    \A c \in Clients :
        (/\ resp[c].op = "search"
         /\ resp[c].layer = "repository"
         /\ TrimmedLen(resp[c].query) = 0)
        => /\ resp[c].err = NilErr
           /\ resp[c].list = << >>
           /\ resp[c].stmts = 0

\* the repository's search of a query of white space only returned the empty
\* list although rows are stored
C10_Witness ==
    /\ resp[1].op = "search"
    /\ resp[1].layer = "repository"
    /\ resp[1].query # EmptyStr
    /\ TrimmedLen(resp[1].query) = 0
    /\ resp[1].list = << >>
    /\ resp[1].err = NilErr
    /\ employees # {}

\* s begins with q
StartsWith(s, q) == Len(q) <= Len(s) /\ SubSeq(s, 1, Len(q)) = q

\* the trimmed query of a search
Trimmed(q) ==
    IF TrimmedLen(q) = 0 THEN EmptyStr
    ELSE SubSeq(q, FirstNonSpace(q, 1), LastNonSpace(q, Len(q)))

\* the stored employees with q, letter case apart, inside name, phone or city
Having(q) ==
    {r \in employees : \/ Contains(Lower(r.name), Lower(q))
                       \/ Contains(Lower(r.phone), Lower(q))
                       \/ Contains(Lower(r.city), Lower(q))}

\* the searches that returned a list
Searches == {c \in Clients : resp[c].op = "search" /\ resp[c].repoCalls = 1
                             /\ resp[c].err = NilErr}
Listed(c) == {resp[c].list[i] : i \in 1..Len(resp[c].list)}

\* C11: the repository's SearchEmployees of a query that is not empty after
\* trimming, on a table with at most 100 matches, returns exactly the
\* employees whose name, phone or city holds the trimmed query, letter case
\* apart, each of them once
C11_SubstringMatch ==
    \A c \in Searches :
        LET q == Trimmed(resp[c].query)
        IN  (q # EmptyStr /\ Cardinality(Having(q)) <= 100)
            => /\ Listed(c) = Having(q)
               /\ Cardinality(Listed(c)) = Len(resp[c].list)

\* the tier of an employee for a query: 1 name begins with it, 2 phone does,
\* 3 city does, 4 otherwise; letter case apart
PrefixTier(r, q) ==
    IF StartsWith(Lower(r.name), Lower(q)) THEN 1
    ELSE IF StartsWith(Lower(r.phone), Lower(q)) THEN 2
    ELSE IF StartsWith(Lower(r.city), Lower(q)) THEN 3
    ELSE 4

\* C12: the list the repository's SearchEmployees returns is sorted by tier
\* and, within a tier, by ascending name
C12_Ranking ==
    \A c \in Searches :
        LET q == Trimmed(resp[c].query)
            list == resp[c].list
        IN  \A i \in 1..Len(list), j \in 1..Len(list) :
                i < j => \/ PrefixTier(list[i], q) < PrefixTier(list[j], q)
                         \/ /\ PrefixTier(list[i], q) = PrefixTier(list[j], q)
                            /\ ~StrLess(list[j].name, list[i].name)

\* the rows the WHERE clause of the search of q selects
Selected(q) == {r \in employees : Matches(r, <<"%">> \o q \o <<"%">>)}

\* C13: the repository's SearchEmployees returns at most 100 employees, each
\* once; when more than 100 match, they are the first 100 in the order of
\* tier, then name: the list is in that order and no omitted match comes
\* before a listed one
C13_Limit ==
    \A c \in Searches :
        LET q == Trimmed(resp[c].query)
            list == resp[c].list
            n == Len(list)
        IN  /\ n <= 100
            /\ Listed(c) \subseteq Selected(q)
            /\ Cardinality(Listed(c)) = n
            /\ Cardinality(Selected(q)) <= 100 => Listed(c) = Selected(q)
            /\ Cardinality(Selected(q)) > 100 => n = 100
            /\ \A i \in 1..(n - 1) : ~Before(list[i + 1], list[i], q \o <<"%">>)
            /\ \A r \in Selected(q) \ Listed(c) : ~Before(r, list[n], q \o <<"%">>)

\* more than 100 rows matched and the 100 returned span two tiers
C13_Witness ==
    /\ resp[1].op = "search"
    /\ resp[1].err = NilErr
    /\ Len(resp[1].list) = 100
    /\ Cardinality(Selected(Trimmed(resp[1].query))) > 100
    /\ Tier(resp[1].list[1], Trimmed(resp[1].query) \o <<"%">>)
         < Tier(resp[1].list[100], Trimmed(resp[1].query) \o <<"%">>)

\* a and b are the same up to letter case
SameLetters(a, b) ==
    Len(a) = Len(b) /\ \A i \in 1..Len(a) : LowerChar(a[i]) = LowerChar(b[i])

\* C14: GetEmployeesByCity(city) returns exactly the employees whose city is
\* city up to letter case, each once, in ascending order of name
C14_ByCity ==
    \A c \in Clients :
        (resp[c].op = "bycity" /\ resp[c].err = NilErr)
        => LET list == resp[c].list
           IN  /\ Listed(c) = {r \in employees : SameLetters(r.city, resp[c].query)}
               /\ Cardinality(Listed(c)) = Len(list)
               /\ \A i \in 1..Len(list), j \in 1..Len(list) :
                    i < j => ~StrLess(list[j].name, list[i].name)

\* the employees of "almaty" came back in name order, which is not the order
\* of their ids, while an employee of another city is stored
C14_Witness ==
    /\ resp[1].op = "bycity"
    /\ resp[1].query = AlmatyLower
    /\ Len(resp[1].list) = 2
    /\ resp[1].list[1].id > resp[1].list[2].id
    /\ resp[1].list[1].city # resp[1].list[2].city
    /\ Cardinality(employees) = 3

\* C15: GetAllEmployees returns every stored employee once, in ascending
\* order of id, and no error, the empty list on the empty table; that order is
\* the order of creation, as every create gives an id above all stored ones
C15_FetchAll ==
    [][\A c \in Clients :
        Completes(c)
        => /\ (resp'[c].op = "getall" /\ ~IsFault(resp'[c].err))
                => LET list == resp'[c].list
                   IN  /\ resp'[c].err = NilErr
                       /\ {list[i] : i \in 1..Len(list)} = employees
                       /\ Len(list) = Cardinality(employees)
                       /\ \A i \in 1..Len(list), j \in 1..Len(list) :
                            i < j => list[i].id < list[j].id
           /\ (resp'[c].op = "create" /\ resp'[c].err = NilErr)
                => \A r \in employees : r.id < resp'[c].emp.id]_vars

\* after three creates and the delete of the first employee the other two
\* came back in the order of their creation
C15_Witness ==
    /\ resp[1].op = "getall"
    /\ resp[1].err = NilErr
    /\ Len(resp[1].list) = 2
    /\ resp[1].list[1].id = 2
    /\ resp[1].list[2].id = 3
    /\ 1 \in deleted

C17_ConstraintViolation ==
    \A c \in Clients :
        (/\ resp[c].op = "create"
         /\ resp[c].layer = "service"
         /\ NonEmptyFields(resp[c].emp)
         /\ ~IsFault(resp[c].err)
         /\ \E r \in employees : r.phone = resp[c].emp.phone /\ r.id # resp[c].emp.id)
        => /\ resp[c].err # NilErr
           /\ resp[c].err.kind # Wrapped("create", ConnFailed).kind
           /\ resp[c].status \in 400..499

\* C18: updateEmployee of an employee with an empty name, phone or city
\* returns a ValidationError for the first empty field in the order name,
\* phone, city, calls no repository method and leaves the table as it was,
\* whether or not a row has the id
C18_UpdateValidation ==
    [][\A c \in Clients :
        (Completes(c) /\ resp'[c].op = "update" /\ ~NonEmptyFields(resp'[c].emp))
        => LET e == resp'[c].emp
               err == resp'[c].err
           IN  /\ err.kind = "ValidationError"
               /\ \/ err.field = "name" /\ e.name = EmptyStr
                  \/ err.field = "phone" /\ e.name # EmptyStr /\ e.phone = EmptyStr
                  \/ /\ err.field = "city"
                     /\ e.name # EmptyStr /\ e.phone # EmptyStr /\ e.city = EmptyStr
               /\ resp'[c].repoCalls = 0
               /\ resp'[c].stmts = 0
               /\ employees' = employees]_vars

\* an update with no name and no phone, of an id no row has, was refused for
\* its name while another row is stored
C18_Witness ==
    /\ resp[1].op = "update"
    /\ resp[1].emp.name = EmptyStr
    /\ resp[1].emp.phone = EmptyStr
    /\ resp[1].err = ValidationError("name")
    /\ \A r \in employees : r.id # resp[1].emp.id
    /\ employees # {}

\* C19: a successful updateEmployee(e) leaves under e.id a row with exactly
\* the name, phone and city of e, which getEmployee(e.id) then returns; every
\* other row and the number of rows stay as they were
C19_UpdateReplaces ==
    [][\A c \in Clients :
        (Completes(c) /\ resp'[c].op = "update" /\ resp'[c].err = NilErr)
        => LET e == resp'[c].emp
           IN  /\ e.id \in Ids(employees)
               /\ e \in employees'
               /\ {r \in employees' : r.id # e.id} = {r \in employees : r.id # e.id}
               /\ Cardinality(employees') = Cardinality(employees)]_vars

\* C20: every stored employee has a positive id that no other stored
\* employee has, and a name, a phone and a city that are not empty; no step
\* trades the id of a row for another id, and an id that appears was never
\* handed out before
C20_Ids ==
    [][/\ \A r \in employees' : r.id > 0 /\ NonEmptyFields(r)
       /\ \A r1 \in employees', r2 \in employees' : r1.id = r2.id => r1 = r2
       /\ \/ Ids(employees') \subseteq Ids(employees)
          \/ Ids(employees) \subseteq Ids(employees')
       /\ \A i \in Ids(employees') \ Ids(employees) : i > seq]_vars

\* two rows are stored after the first employee was deleted, one of them
\* changed by an update
C20_Witness ==
    /\ Cardinality(employees) = 2
    /\ 1 \in deleted
    /\ \E r \in employees : \A o \in origin : o.id # r.id
    /\ \E r \in employees : r \in origin

\* C21: once deleteEmployee(id) has succeeded, every later getEmployee(id),
\* deleteEmployee(id) and updateEmployee with that id (of fields that pass
\* validation and fit the columns) that the store answers fails with
\* NotFound for that id, whatever was created since; no row has a deleted
\* id and no create returns one
C21_DeletionPermanent ==
    [][/\ \A c \in observed :
            /\ Completes(c)
            /\ resp'[c].op \in {"get", "update", "delete"}
            /\ resp'[c].id \in deleted
            /\ ~IsFault(resp'[c].err)
            /\ resp'[c].op = "update" =>
                    NonEmptyFields(resp'[c].emp) /\ FitsColumns(resp'[c].emp)
            => resp'[c].err = NotFoundError("employee", resp'[c].id)
       /\ \A c \in observed :
            Completes(c) /\ resp'[c].op = "create" /\ resp'[c].err = NilErr
            => resp'[c].emp.id \notin deleted
       /\ Ids(employees') \cap deleted' = {}]_vars

\* the first employee was deleted, another was created after it, and a get
\* of the first is refused
C21_Witness ==
    /\ deleted = {1}
    /\ \E r \in employees : r.id = 3
    /\ resp[1].op = "get"
    /\ resp[1].id = 1
    /\ resp[1].err = NotFoundError("employee", 1)

\* C22: a getEmployee(id) that the store answered returned the stored
\* employee with that id and no error when there is one, and otherwise no
\* employee and the NotFound of entity "employee" with that id
C22_FetchByID ==
    \A c \in observed :
        resp[c].op = "get" /\ ~IsFault(resp[c].err)
        => IF \E r \in employees : r.id = resp[c].id
           THEN /\ resp[c].err = NilErr
                /\ resp[c].val \in employees
                /\ resp[c].val.id = resp[c].id
           ELSE /\ resp[c].err = NotFoundError("employee", resp[c].id)
                /\ resp[c].val = NoEmp

\* employees are stored, none with the id asked for, and the get is refused
C22_Witness ==
    /\ resp[1].op = "get"
    /\ employees # {}
    /\ resp[1].id \notin Ids(employees)
    /\ resp[1].err = NotFoundError("employee", resp[1].id)
    /\ resp[1].val = NoEmp

\* the number of stored employees of a city
Headcount(city) == Cardinality({r \in employees : r.city = city})

\* C23: in every state of the store, the empty one included, a stats() that
\* the store answered succeeded with total count = the number of employees,
\* cities count = the number of distinct cities, and a most common city
\* that no city exceeds in employees
C23_Stats ==
    \A c \in observed :
        resp[c].op = "stats" /\ ~IsFault(resp[c].err)
        => /\ resp[c].err = NilErr
           /\ resp[c].stats.total = Cardinality(employees)
           /\ resp[c].stats.cities = Cardinality({r.city : r \in employees})
           /\ employees # {} =>
                /\ \E r \in employees : r.city = resp[c].stats.city
                /\ \A r \in employees : Headcount(r.city) <= Headcount(resp[c].stats.city)

\* C24: a phoneExists(phone) that the store answered is true iff a stored
\* employee has exactly that phone, and a phoneExists(phone, excludeID) is
\* true iff a stored employee with another id than excludeID has it
C24_PhoneExists ==
    \A c \in observed :
        /\ resp[c].op = "phoneexists" /\ resp[c].err = NilErr
           => (resp[c].exists <=> {r.id : r \in {x \in employees : x.phone = resp[c].query}} # {})
        /\ resp[c].op = "phoneexistsexcept" /\ resp[c].err = NilErr
           => (resp[c].exists <=>
                 {r.id : r \in {x \in employees : x.phone = resp[c].query}} \ {resp[c].id} # {})

\* the only holder of the phone is the excluded employee, and the answer
\* is false
C24_Witness ==
    /\ resp[1].op = "phoneexistsexcept"
    /\ resp[1].err = NilErr
    /\ \E r \in employees : r.phone = resp[1].query /\ r.id = resp[1].id
    /\ Cardinality(employees) > 1
    /\ ~resp[1].exists

\* C25: getEmployee, getAllEmployees and deleteEmployee return the value
\* and the error their repository method returned, and createEmployee of
\* an employee that passes validation calls the repository and returns the
\* error of its Create, of the same kind and with the same cause
C25_Passthrough ==
    \A c \in observed :
        /\ resp[c].layer = "service" /\ resp[c].op \in {"get", "getall", "delete"}
           => /\ resp[c].repoCalls = 1
              /\ resp[c].err = resp[c].repo.err
              /\ resp[c].val = resp[c].repo.val
              /\ resp[c].list = resp[c].repo.list
        /\ resp[c].layer = "service" /\ resp[c].op = "create" /\ NonEmptyFields(resp[c].emp)
           => /\ resp[c].repoCalls = 1
              /\ resp[c].err = resp[c].repo.err

\* the repository refused a create for its phone and the service returned
\* that error
C25_Witness ==
    /\ resp[1].op = "create"
    /\ resp[1].layer = "service"
    /\ resp[1].repo.err = Wrapped("create", UniqueViolation)
    /\ resp[1].err = Wrapped("create", UniqueViolation)

\* C26: when the service call succeeds, create answers 201 with the id the
\* service assigned (the id of the new row) and the submitted name, phone
\* and city; get answers 200 with the stored employee of the path id;
\* update answers 200 with the path id and the submitted fields; delete
\* answers 204 without a body; get-all answers 200 with the employees in
\* the order the service returned them
C26_SuccessResponses ==
    [][\A c \in observed :
        /\ Completes(c)
        /\ pending[c].layer = "service"
        /\ resp'[c].err = NilErr
        => LET req == pending[c]
               out == resp'[c]
           IN  /\ req.op = "create" =>
                    /\ out.status = StatusCreated
                    /\ out.body.written
                    /\ out.body.emp.id = seq'
                    /\ out.body.emp.id \in Ids(employees') \ Ids(employees)
                    /\ out.body.emp = [req.emp EXCEPT !.id = seq']
               /\ req.op = "get" =>
                    /\ out.status = StatusOK
                    /\ out.body.written
                    /\ out.body.emp.id = req.id
                    /\ out.body.emp \in employees
               /\ req.op = "update" =>
                    /\ out.status = StatusOK
                    /\ out.body.written
                    /\ out.body.emp = req.emp
               /\ req.op = "delete" =>
                    /\ out.status = StatusNoContent
                    /\ ~out.body.written
               /\ req.op = "getall" =>
                    /\ out.status = StatusOK
                    /\ out.body.written
                    /\ out.body.list = out.list]_vars

\* a second employee was created and answered with 201 and the id 2
C26_Witness ==
    /\ resp[1].op = "create"
    /\ resp[1].status = StatusCreated
    /\ resp[1].body.emp.id = 2
    /\ Cardinality(employees) = 2

\* C27: a service failure that is neither a ValidationError nor a NotFound
\* is answered with 500, whatever the text of its message, and 404 is
\* answered only for the NotFound the repository returned
C27_StoreErrorIs500 ==
    \A c \in observed :
        resp[c].layer = "service" /\ resp[c].err # NilErr
        => /\ resp[c].err.kind \notin {"ValidationError", "NotFoundError"}
              => resp[c].status = StatusInternalServerError
           /\ resp[c].status = StatusNotFound
              => resp[c].err.kind = "NotFoundError" /\ resp[c].repo.err = resp[c].err

\* C28: an updateEmployee that gives an existing employee the phone another
\* stored employee holds (fields that pass validation and fit the columns,
\* answered by the store) fails with the wrapped error of the unique index,
\* which is neither a ValidationError nor a NotFound; no row changes; the
\* service called one repository method, Update, which issued one
\* statement, so no phoneExists came before it
C28_UpdateDuplicatePhone ==
    [][\A c \in observed :
        /\ Completes(c)
        /\ resp'[c].op = "update"
        /\ NonEmptyFields(resp'[c].emp)
        /\ FitsColumns(resp'[c].emp)
        /\ resp'[c].emp.id \in Ids(employees)
        /\ \E r \in employees : r.id # resp'[c].emp.id /\ r.phone = resp'[c].emp.phone
        /\ ~IsFault(resp'[c].err)
        => /\ resp'[c].err = Wrapped("update", UniqueViolation)
           /\ resp'[c].err.kind \notin {"ValidationError", "NotFoundError"}
           /\ employees' = employees
           /\ pending[c].op = "update"
           /\ resp'[c].repoCalls = 1
           /\ resp'[c].stmts = 1]_vars

\* two employees are stored and an update of the second to the phone of the
\* first was refused by the unique index
C28_Witness ==
    /\ resp[1].op = "update"
    /\ resp[1].err = Wrapped("update", UniqueViolation)
    /\ Cardinality(employees) = 2
    /\ \E r \in employees : r.id # resp[1].emp.id /\ r.phone = resp[1].emp.phone
    /\ \E r \in employees : r.id = resp[1].emp.id /\ r.phone # resp[1].emp.phone

\* a step of the request of client c inside the repository
RepoStep(c) ==
    /\ pending[c] # Idle
    /\ <<employees, seq, pending[c], resp[c]>>' # <<employees, seq, pending[c], resp[c]>>

\* C29: every request ends with at most one repository call and at most
\* one statement; the one step a request takes inside the repository ends
\* it, and when the statement of that step failed the request returns the
\* error at once and the table is as the one statement left it; a request
\* refused before the repository issued no statement
C29_NoRetry ==
    [][\A c \in observed :
        /\ RepoStep(c) =>
            /\ pending'[c] = Idle
            /\ resp'[c].op = pending[c].op
            /\ resp'[c].repoCalls = 1
            /\ resp'[c].stmts <= 1
            /\ (\E f \in {ConnFailed, ReplyLost} : resp'[c].repo.err = Wrapped(pending[c].op, f))
                => resp'[c].err # NilErr /\ resp'[c].stmts = 1
        /\ Completes(c) /\ pending[c] = Idle =>
            /\ resp'[c].repoCalls = 0
            /\ resp'[c].stmts = 0
            /\ UNCHANGED <<employees, seq>>]_vars

\* a delete whose statement did not reach the store returned the error
\* after one statement, and the employee is still stored
C29_Witness ==
    /\ resp[1].op = "delete"
    /\ resp[1].err = Wrapped("delete", ConnFailed)
    /\ resp[1].stmts = 1
    /\ resp[1].id \in Ids(employees)
    /\ pending[1] = Idle

\* the operations that only read
ReadOps == {"get", "getall", "search", "bycity", "byphone", "stats",
            "phoneexists", "phoneexistsexcept"}

\* C30 as stated: a read leaves the store as it was whether it succeeds or
\* fails, and every operation that returns an error leaves the set of
\* stored employees as it was
C30_Original ==
    [][\A c \in observed :
        Completes(c) =>
            /\ resp'[c].op \in ReadOps => UNCHANGED <<employees, seq>>
            /\ resp'[c].err # NilErr => employees' = employees]_vars

\* C30: a read leaves the store as it was whether it succeeds or fails, and
\* an operation that returns an error leaves the set of stored employees
\* as it was unless its statement ran and only the reply was lost
C30_FailureLeavesStore ==
    [][\A c \in observed :
        Completes(c) =>
            /\ resp'[c].op \in ReadOps => UNCHANGED <<employees, seq>>
            /\ (resp'[c].err # NilErr /\ resp'[c].repo.err.cause # ReplyLost)
               => employees' = employees]_vars

\* a create was refused for its phone: the sequence moved on and the one
\* stored employee is all there is
C30_Witness ==
    /\ resp[1].op = "create"
    /\ IsConstraintViolation(resp[1].err)
    /\ seq = 2
    /\ Cardinality(employees) = 1

====
